---- MODULE Spec2Model ----
(***************************************************************************)
(* Model of src/auth.js: the three functions login, validateCredentials    *)
(* and logout, called in any order by a caller that may catch exceptions.  *)
(* The only program state is the console (the output stream); `calls` is   *)
(* the caller's record of what it called and what came back.               *)
(***************************************************************************)
EXTENDS Integers, Sequences, FiniteSets, TLC

\* ---------------------------------------------------------------- bounds
MaxCalls == 3      \* calls the caller makes in one run
MaxUserLen == 1    \* longest username tried
MaxPwLen == 7      \* longest password tried

\* ------------------------------------------------------ program constants
MinPasswordLength == 6   \* auth.js:15  password.length >= 6

\* ------------------------------------------------------------- state
\* out:   the messages written to the console so far (console.log);
\* calls: the calls made so far, each with its arguments and its outcome.
VARIABLES out, calls
vars == <<out, calls>>

\* ------------------------------------------------------------ JS values
\* A JavaScript value is a string or undefined (a missing argument).
Undefined == [t |-> "undefined"]
Str(s) == [t |-> "string", s |-> s]

RECURSIVE Repeat(_, _)
Repeat(ch, n) == IF n = 0 THEN "" ELSE ch \o Repeat(ch, n - 1)

\* Password lengths tried: the empty text and the lengths around the
\* boundary of the rule, up to MaxPwLen.
PasswordLengths == {0} \cup {n \in 0..MaxPwLen : n >= MinPasswordLength - 1}

Usernames == {Undefined} \cup {Str(Repeat("a", n)) : n \in 0..MaxUserLen}
Passwords == {Undefined} \cup {Str(Repeat("x", n)) : n \in PasswordLengths}

\* ------------------------------------------------- outcomes of a call
\* kind: "return" or "throw"; value: the returned value or the error name;
\* written: the messages console.log received during the call, in order;
\* read: the arguments whose .length the call evaluated, in order.
Return(v, written, read) ==
    [kind |-> "return", value |-> v, written |-> written, read |-> read]
Throw(written, read) ==
    [kind |-> "throw", value |-> "TypeError", written |-> written, read |-> read]

\* x.length: a string has a length; reading a property of undefined throws.
HasLength(x) == x.t = "string"
Length(x) == Len(x.s)

\* Variants of validateCredentials that a slip in auth.js:15 would produce.
\* password.length > 6 in place of >= 6.
validateCredentialsStrict(username, password) ==
    IF ~HasLength(username) THEN Throw(<<>>, <<"username">>)
    ELSE IF ~(Length(username) > 0) THEN Return(FALSE, <<>>, <<"username">>)
    ELSE IF ~HasLength(password) THEN Throw(<<>>, <<"username", "password">>)
    ELSE Return(Length(password) > MinPasswordLength, <<>>,
                <<"username", "password">>)

\* Both operands evaluated before they are combined (& in place of &&).
validateCredentialsEager(username, password) ==
    IF ~HasLength(username) THEN Throw(<<>>, <<"username">>)
    ELSE IF ~HasLength(password) THEN Throw(<<>>, <<"username", "password">>)
    ELSE Return(Length(username) > 0 /\ Length(password) >= MinPasswordLength,
                <<>>, <<"username", "password">>)

\* A console.log of the rejected pair left in the function.
validateCredentialsLogging(username, password) ==
    IF ~HasLength(username) THEN Throw(<<>>, <<"username">>)
    ELSE IF ~(Length(username) > 0)
         THEN Return(FALSE, <<"Invalid credentials">>, <<"username">>)
    ELSE IF ~HasLength(password) THEN Throw(<<>>, <<"username", "password">>)
    ELSE Return(Length(password) >= MinPasswordLength, <<>>,
                <<"username", "password">>)

\* auth.js:13-16
\*   return username.length > 0 && password.length >= 6;
\* && evaluates its right operand only when the left one is true.
validateCredentials(username, password) ==
    IF ~HasLength(username) THEN Throw(<<>>, <<"username">>)
    ELSE IF ~(Length(username) > 0) THEN Return(FALSE, <<>>, <<"username">>)
    ELSE IF ~HasLength(password) THEN Throw(<<>>, <<"username", "password">>)
    ELSE Return(Length(password) >= MinPasswordLength, <<>>,
                <<"username", "password">>)

\* TRUE when the output stream shows a login with no logout after it (what
\* a session flag would hold); used by the stateful variants below.
RECURSIVE LoggedIn(_)
LoggedIn(o) ==
    IF o = <<>> THEN FALSE
    ELSE IF o[Len(o)] = "User logged out" THEN FALSE
    ELSE IF o[Len(o)] = "Login failed" THEN LoggedIn(SubSeq(o, 1, Len(o) - 1))
    ELSE TRUE

\* Variants of login that a slip in auth.js:3-11 would produce.
\* The else branch returns true.
loginAlwaysTrue(username, password) ==
    LET v == validateCredentials(username, password) IN
    IF v.kind = "throw" THEN v
    ELSE IF v.value
         THEN Return(TRUE,
                     v.written \o <<"User " \o username.s \o " logged in successfully">>,
                     v.read)
         ELSE Return(TRUE, v.written \o <<"Login failed">>, v.read)

\* No message on failure.
loginSilentFailure(username, password) ==
    LET v == validateCredentials(username, password) IN
    IF v.kind = "throw" THEN v
    ELSE IF v.value
         THEN Return(TRUE,
                     v.written \o <<"User " \o username.s \o " logged in successfully">>,
                     v.read)
         ELSE Return(FALSE, v.written, v.read)

\* A second login while a user is logged in is refused.
loginOnce(username, password) ==
    LET v == validateCredentials(username, password) IN
    IF v.kind = "throw" THEN v
    ELSE IF v.value /\ ~LoggedIn(out)
         THEN Return(TRUE,
                     v.written \o <<"User " \o username.s \o " logged in successfully">>,
                     v.read)
         ELSE Return(FALSE, v.written \o <<"Login failed">>, v.read)

\* The password in the success message.
loginLeaking(username, password) ==
    LET v == validateCredentials(username, password) IN
    IF v.kind = "throw" THEN v
    ELSE IF v.value
         THEN Return(TRUE,
                     v.written \o <<"User " \o username.s \o ":" \o password.s
                                     \o " logged in successfully">>,
                     v.read)
         ELSE Return(FALSE, v.written \o <<"Login failed">>, v.read)

\* auth.js:3-11
login(username, password) ==
    LET v == validateCredentials(username, password) IN
    IF v.kind = "throw" THEN v
    ELSE IF v.value
         THEN Return(TRUE,
                     v.written \o <<"User " \o username.s \o " logged in successfully">>,
                     v.read)
         ELSE Return(FALSE, v.written \o <<"Login failed">>, v.read)

\* Variants of logout that tracking a session would produce.
\* logout raises when no user is logged in.
logoutRaising ==
    IF LoggedIn(out) THEN Return(Undefined, <<"User logged out">>, <<>>)
    ELSE Throw(<<>>, <<>>)

\* logout is silent when no user is logged in.
logoutOnlyWhenLoggedIn ==
    IF LoggedIn(out) THEN Return(Undefined, <<"User logged out">>, <<>>)
    ELSE Return(Undefined, <<>>, <<>>)

\* auth.js:18-20
logout == Return(Undefined, <<"User logged out">>, <<>>)

\* ------------------------------------------------------------- steps
Init ==
    /\ out = <<>>
    /\ calls = <<>>

\* The caller records the call and its outcome; console.log appends to out.
Record(op, username, password, r) ==
    /\ out' = out \o r.written
    /\ calls' = Append(calls, [op |-> op, username |-> username,
                               password |-> password,
                               kind |-> r.kind, value |-> r.value,
                               written |-> SubSeq(out', Len(out) + 1, Len(out')),
                               read |-> r.read])

Login ==
    /\ Len(calls) < MaxCalls
    /\ \E username \in Usernames, password \in Passwords :
          Record("login", username, password, login(username, password))

Validate ==
    /\ Len(calls) < MaxCalls
    /\ \E username \in Usernames, password \in Passwords :
          Record("validateCredentials", username, password,
                 validateCredentials(username, password))

Logout ==
    /\ Len(calls) < MaxCalls
    /\ Record("logout", Undefined, Undefined, logout)

Next == Login \/ Validate \/ Logout

Spec == Init /\ [][Next]_vars

\* ------------------------------------------------------------ helpers
Calls == 1..Len(calls)
IsCheck(c) == c.op \in {"login", "validateCredentials"}
SameArgs(c, d) == c.username = d.username /\ c.password = d.password
SameResult(c, d) == c.kind = d.kind /\ c.value = d.value
IsText(x) == x.t = "string"
Returned(c, op, v) == c.op = op /\ c.kind = "return" /\ c.value = v
SuccessMessage(username) == "User " \o username.s \o " logged in successfully"

\* ------------------------------------------------------------- claims

\* C1: for text arguments validateCredentials returns true exactly when the
\* username has length > 0 and the password has length >= 6.
ValidateIffRule ==
    \A i \in Calls :
        LET c == calls[i] IN
        (c.op = "validateCredentials" /\ IsText(c.username) /\ IsText(c.password))
            => /\ c.kind = "return"
               /\ c.value = (Len(c.username.s) > 0 /\ Len(c.password.s) >= 6)

\* A run that validated a password of length 5 (false), one of length exactly
\* 6 (true) and an empty username with a long password (false).
ValidateBoundaryReached ==
    /\ \E i \in Calls : /\ Returned(calls[i], "validateCredentials", FALSE)
                        /\ calls[i].username = Str("a")
                        /\ calls[i].password = Str("xxxxx")
    /\ \E i \in Calls : /\ Returned(calls[i], "validateCredentials", TRUE)
                        /\ calls[i].username = Str("a")
                        /\ calls[i].password = Str("xxxxxx")
    /\ \E i \in Calls : /\ Returned(calls[i], "validateCredentials", FALSE)
                        /\ calls[i].username = Str("")
                        /\ calls[i].password = Str("xxxxxxx")

\* C2: a login call and a validateCredentials call with the same arguments
\* come back the same way with the same value.
LoginReturnsValidate ==
    \A i, j \in Calls :
        (/\ calls[i].op = "login"
         /\ calls[j].op = "validateCredentials"
         /\ SameArgs(calls[i], calls[j]))
            => SameResult(calls[i], calls[j])

\* A run in which login accepted a pair that was also given to
\* validateCredentials.
LoginAndValidateCompared ==
    \E i, j \in Calls :
        /\ Returned(calls[i], "login", TRUE)
        /\ calls[j].op = "validateCredentials"
        /\ SameArgs(calls[i], calls[j])

\* C3: no call of validateCredentials or login raises, also with a missing
\* argument, and what comes back is a boolean.
NoExceptionOnMissingInput ==
    \A i \in Calls :
        IsCheck(calls[i]) => calls[i].kind = "return" /\ calls[i].value \in BOOLEAN

\* C4: logout raises nothing and returns no value, whatever was called before.
LogoutNeverRaises ==
    \A i \in Calls :
        calls[i].op = "logout" => calls[i].kind = "return" /\ calls[i].value = Undefined

\* A logout that follows a failed login and an earlier logout.
LogoutAfterFailedLoginAndLogout ==
    /\ Len(calls) = 3
    /\ Returned(calls[1], "login", FALSE)
    /\ calls[2].op = "logout"
    /\ calls[3].op = "logout"

\* C5: two calls of the same function with the same arguments come back the
\* same way with the same value, whatever was called before or between them.
Stateless ==
    \A i, j \in Calls :
        (IsCheck(calls[i]) /\ calls[i].op = calls[j].op /\ SameArgs(calls[i], calls[j]))
            => SameResult(calls[i], calls[j])

\* The same successful login repeated with another call between.
RepeatedLoginReached ==
    /\ Len(calls) = 3
    /\ Returned(calls[1], "login", TRUE)
    /\ calls[2].op \in {"logout", "login"}
    /\ calls[3].op = "login" /\ SameArgs(calls[1], calls[3])

\* C6: a validateCredentials call leaves the output stream as it was.
ValidateWritesNothing ==
    [][(Len(calls') = Len(calls) + 1 /\ calls'[Len(calls')].op = "validateCredentials")
          => out' = out]_vars

\* validateCredentials was called when the output stream already held
\* messages.
ValidateAfterOutput ==
    \E i \in Calls :
        /\ i > 1
        /\ calls[i].op = "validateCredentials"
        /\ calls[i].kind = "return"
        /\ out # <<>>

\* C7: a login call that returns wrote exactly one message: the success
\* message exactly when it returned true, 'Login failed' exactly when it
\* returned false.
LoginMessageMatchesReturn ==
    \A i \in Calls :
        LET c == calls[i] IN
        (c.op = "login" /\ c.kind = "return" /\ IsText(c.username))
            => /\ c.value \in BOOLEAN
               /\ Len(c.written) = 1
               /\ (c.value = TRUE <=> c.written[1] = SuccessMessage(c.username))
               /\ (c.value = FALSE <=> c.written[1] = "Login failed")

\* A run with a successful and a failed login.
BothLoginOutcomesReached ==
    /\ \E i \in Calls : Returned(calls[i], "login", TRUE)
    /\ \E i \in Calls : Returned(calls[i], "login", FALSE)

\* C8: every logout call writes exactly the message 'User logged out', and a
\* login or validateCredentials call gives the same result and output after
\* a logout as the same call gave before it.
LogoutUnconditional ==
    \A i \in Calls :
        calls[i].op = "logout"
            => /\ calls[i].written = <<"User logged out">>
               /\ \A h, k \in Calls :
                     (/\ h < i /\ i < k
                      /\ IsCheck(calls[h])
                      /\ calls[h].op = calls[k].op
                      /\ SameArgs(calls[h], calls[k]))
                         => /\ SameResult(calls[h], calls[k])
                            /\ calls[h].written = calls[k].written

\* A logout with no successful login before it, between two equal logins.
LogoutBetweenEqualLogins ==
    /\ Len(calls) = 3
    /\ Returned(calls[1], "login", FALSE)
    /\ calls[2].op = "logout"
    /\ calls[3].op = "login" /\ SameArgs(calls[1], calls[3])

\* C9: with the empty username validateCredentials returns false without
\* reading the password, also when the password is missing; it reads the
\* password's length only when the username is non-empty.
ShortCircuit ==
    \A i \in Calls :
        LET c == calls[i] IN
        c.op = "validateCredentials"
            => /\ c.username = Str("")
                  => (c.kind = "return" /\ c.value = FALSE /\ c.read = <<"username">>)
               /\ (\E n \in 1..Len(c.read) : c.read[n] = "password")
                  => (IsText(c.username) /\ Len(c.username.s) > 0)

\* validateCredentials was called with the empty username and a missing
\* password, and with a non-empty username.
EmptyUsernameMissingPassword ==
    /\ \E i \in Calls : /\ Returned(calls[i], "validateCredentials", FALSE)
                        /\ calls[i].username = Str("")
                        /\ calls[i].password = Undefined
    /\ \E i \in Calls : /\ calls[i].op = "validateCredentials"
                        /\ calls[i].username = Str("a")
                        /\ calls[i].read = <<"username", "password">>

\* C10: two logins with the same username and the same result wrote the same
\* messages whatever their passwords; a login writes nothing but the success
\* message built from the username or the fixed failure message.
PasswordNotLeaked ==
    /\ \A i, j \in Calls :
          (/\ calls[i].op = "login" /\ calls[j].op = "login"
           /\ calls[i].username = calls[j].username
           /\ SameResult(calls[i], calls[j]))
              => calls[i].written = calls[j].written
    /\ \A i \in Calls :
          (calls[i].op = "login" /\ IsText(calls[i].username))
              => \A n \in 1..Len(calls[i].written) :
                    calls[i].written[n] \in
                        {SuccessMessage(calls[i].username), "Login failed"}

\* Two successful logins of one user with different passwords, and a logout.
TwoPasswordsSameOutcome ==
    \E i, j \in Calls :
        /\ Returned(calls[i], "login", TRUE)
        /\ Returned(calls[j], "login", TRUE)
        /\ calls[i].username = calls[j].username
        /\ calls[i].password # calls[j].password
        /\ \E k \in Calls : calls[k].op = "logout"

====
